---------------------------- MODULE Spec2Model ----------------------------
(***************************************************************************)
(* Model of heat's SquareDiagTiles (heat/core/tiling.py) and of the        *)
(* DataParallel gradient synchronizer                                      *)
(* (heat/nn/data_parallel/data_parallel.py).                               *)
(*                                                                         *)
(* Python lists and tensors are sequences; a Python index i is the TLA+    *)
(* index i + 1 (see At).  Ranks are 0 .. size-1 as in the source.          *)
(* Gradients are exact rationals [num, den]: floating point rounding is    *)
(* not modelled.                                                           *)
(***************************************************************************)
EXTENDS Integers, Sequences, FiniteSets, TLC

VARIABLES
    \* ---- tiling ----
    arr,            \* the DNDarray descriptor: gshape, split, comm.size, lshape_map
    tile_per_proc,  \* constructor argument
    tiles,          \* the SquareDiagTiles object (its private fields)
    tpc,            \* "new", "built" or "raised"
    tcall,          \* the last accessor call and what it returned
    larray,         \* larray[r + 1]: the local tensor of the array on rank r
    nset,           \* tile writes made so far
    matched,        \* the grids this grid was matched against, in call order
    \* ---- data parallel ----
    mode,           \* "none", "blocking" (optimizer is None) or "nonblocking"
    comm_size,      \* self.comm.size
    training,       \* self.module.training
    module,         \* the wrapped module: its named parameters and submodules
    lgrad,          \* lgrad[p][i]: local gradient of parameter i on process p
    border,         \* border[k]: the parameter whose hook issues reduction k
    pc,             \* pc[p]: where process p is in its training loop
    nback,          \* nback[p]: backward passes process p has started
    passStart,      \* passStart[p]: reductions p had issued when its pass began
    sendbuf,        \* sendbuf[p][k]: buffer p contributed to reduction k
    grad,           \* grad[p][i]: param.grad of parameter i on process p
    wait_handles,   \* wait_handles[p]: layer name -> list of (size1D, handle)
    fwd_hook_handles, \* fwd_hook_handles[p]: list of registered hook handles
    registered,     \* registered[p]: submodules carrying a pre-forward hook
    flayer,         \* flayer[p]: next submodule of the running forward pass
    waitlog,        \* waitlog[p]: handles waited on in the running forward pass
    optimizer,      \* the optimizer argument of DataParallel(module, comm, optimizer)
    ctor            \* ctor[p]: the constructor call of process p and its object

svars == <<larray, nset, matched>>
tvars == <<arr, tile_per_proc, tiles, tpc, tcall, svars>>
cvars == <<optimizer, ctor>>
dvars == <<mode, comm_size, training, module, lgrad, border, pc, nback,
           passStart, sendbuf, grad, wait_handles, fwd_hook_handles, registered,
           flayer, waitlog, cvars>>
vars == <<tvars, dvars>>

-----------------------------------------------------------------------------
(* Bounds *)
MaxDim == 12
MaxAccDim == 6
MaxRanks == 2
MaxBackward == 2
MaxProcs == 3
MaxTilesPerProc == 2

-----------------------------------------------------------------------------
(* Python / torch helpers *)

At(s, i) == s[i + 1]

Min2(a, b) == IF a <= b THEN a ELSE b
Max2(a, b) == IF a >= b THEN a ELSE b
Abs(a) == IF a < 0 THEN 0 - a ELSE a

RECURSIVE SumSeq(_)
SumSeq(s) == IF Len(s) = 0 THEN 0 ELSE s[1] + SumSeq(Tail(s))

\* torch.cumsum over a 1-d tensor
CumSum(s) == [i \in 1..Len(s) |-> SumSeq(SubSeq(s, 1, i))]

\* s[:n] for n >= 0
Prefix(s, n) == SubSeq(s, 1, Min2(n, Len(s)))

\* s[:-1]
Front(s) == SubSeq(s, 1, Len(s) - 1)

\* list.insert(i, x) for i >= 0
ListInsert(s, i, x) ==
    IF i >= Len(s) THEN Append(s, x)
    ELSE SubSeq(s, 1, i) \o <<x>> \o SubSeq(s, i + 1, Len(s))

\* t[a:b] = v on a 1-d tensor (slice bounds are clamped)
SetRange(s, a, b, v) ==
    [i \in 1..Len(s) |-> IF a <= i - 1 /\ i - 1 < b THEN v ELSE s[i]]

\* indices (0-based, ascending) at which s is zero: torch.nonzero(s == 0)
RECURSIVE ZeroIdx(_, _)
ZeroIdx(s, i) ==
    IF i >= Len(s) THEN <<>>
    ELSE (IF At(s, i) = 0 THEN <<i>> ELSE <<>>) \o ZeroIdx(s, i + 1)

\* the non-zero entries of s, in order
RECURSIVE NonZero(_)
NonZero(s) ==
    IF Len(s) = 0 THEN <<>>
    ELSE (IF s[1] # 0 THEN <<s[1]>> ELSE <<>>) \o NonZero(Tail(s))

\* comm.chunk(shape, 0, rank, w_size)[1][0]: balanced 1-d chunking
chunk(size, rank, w_size) ==
    (size \div w_size) + (IF size % w_size > rank THEN 1 ELSE 0)

\* the local shapes of a balanced DNDarray
BalancedMap(gshape, split, size) ==
    [r \in 1..size |->
        IF split = 0 THEN <<chunk(gshape[1], r - 1, size), gshape[2]>>
        ELSE <<gshape[1], chunk(gshape[2], r - 1, size)>>]


-----------------------------------------------------------------------------
(* SquareDiagTiles.__init__ *)

\* lshape_map[..., split] as a sequence over the ranks
SplitExtents(lshape_map, split) ==
    [r \in 1..Len(lshape_map) |-> lshape_map[r][split + 1]]

\* torch.where(lshape_map[..., split].cumsum(0) >= min(gshape))[0][0]
last_diag_pr_of(lshape_map, split, gshape) ==
    LET cs == CumSum(SplitExtents(lshape_map, split))
        mn == Min2(gshape[1], gshape[2])
    IN  (CHOOSE r \in 1..Len(cs) :
            /\ cs[r] >= mn
            /\ \A q \in 1..(r - 1) : cs[q] < mn) - 1

\* rows/columns after the last diagonal on the last diagonal process
rem_cols_last_pr_of(lshape_map, split, gshape) ==
    LET cs == CumSum(SplitExtents(lshape_map, split))
        ldp == last_diag_pr_of(lshape_map, split, gshape)
        last_pr_minus1 == IF ldp > 0 THEN ldp - 1 ELSE 0
    IN  Abs(Min2(gshape[1], gshape[2]) - At(cs, last_pr_minus1))

\* the while loop adjusting last_tile_cols; rem / 0 is inf or nan, neither
\* of which is < 2, on a build where it does not raise
RECURSIVE last_tile_cols_loop(_, _)
last_tile_cols_loop(rem, ltc) ==
    IF ltc = 0 THEN 0
    ELSE IF rem < 2 * ltc
         THEN (IF ltc - 1 = 1 THEN 1 ELSE last_tile_cols_loop(rem, ltc - 1))
         ELSE ltc

\* TRUE iff the loop evaluates rem / 0
DividesByZero(rem, tpp) == tpp = 1 /\ rem < 2

\* the loop of lines 148-163 extending the columns for split = 1;
\* st = [col_inds, cpp, err]
RECURSIVE ExtendCols(_, _, _, _, _)
ExtendCols(pr, st, col_proc_ind, lshape_map, ldp) ==
    IF pr >= Len(lshape_map) \/ st.err THEN st
    ELSE
    LET lshape_cumsum == CumSum(SplitExtents(lshape_map, 1))
        col_cumsum == CumSum(st.col_inds)
        idx == At(col_proc_ind, pr) - 1
        \* a negative tensor index counts from the end
        pos == IF idx < 0 THEN idx + Len(col_cumsum) ELSE idx
    IN  IF pos < 0 \/ pos >= Len(col_cumsum)
        THEN [st EXCEPT !.err = TRUE]
        ELSE
        LET diff == At(lshape_cumsum, pr) - At(col_cumsum, pos)
            st1 == IF diff > 0 /\ pr <= ldp
                   THEN [st EXCEPT
                            !.cpp = [st.cpp EXCEPT ![pr + 1] = @ + 1],
                            !.col_inds = ListInsert(st.col_inds, At(col_proc_ind, pr), diff)]
                   ELSE st
            st2 == IF pr > ldp /\ diff > 0
                   THEN [st1 EXCEPT
                            !.col_inds = ListInsert(st1.col_inds, At(col_proc_ind, pr), diff)]
                   ELSE st1
        IN  ExtendCols(pr + 1, st2, col_proc_ind, lshape_map, ldp)

\* the values written by the loop of lines 203-209, in order
RECURSIVE RestRowChunks(_, _, _, _)
RestRowChunks(i, t, lshape_map, tpp) ==
    IF i >= Len(lshape_map) THEN <<>>
    ELSE IF t >= tpp THEN RestRowChunks(i + 1, 0, lshape_map, tpp)
    ELSE <<chunk(At(lshape_map, i)[1], t, tpp)>> \o RestRowChunks(i, t + 1, lshape_map, tpp)

\* row_inds[nz[0]] = v; nz = nz[1:], for every v of vals (Len(vals) <= Len(nz))
RECURSIVE FillZeros(_, _, _)
FillZeros(row_inds, nz, vals) ==
    IF Len(vals) = 0 THEN row_inds
    ELSE FillZeros([row_inds EXCEPT ![nz[1] + 1] = vals[1]], Tail(nz), Tail(vals))

\* lines 267-269: the ranks after the last diagonal process, split = 0
RECURSIVE SetRestRanks(_, _, _, _, _, _)
SetRestRanks(own, p, st, size, ldp, tpp) ==
    IF p >= size - ldp + 1 THEN own
    ELSE SetRestRanks(SetRange(own, st, st + tpp * (p + 1), p + ldp + 1),
                      p + 1, st + tpp, size, ldp, tpp)

\* lines 257-258: the ranks before the last diagonal process, split = 0
RECURSIVE SetDiagRanks(_, _, _, _)
SetDiagRanks(own, p, ldp, tpp) ==
    IF p >= ldp THEN own
    ELSE SetDiagRanks(SetRange(own, tpp * p, tpp * (p + 1), p), p + 1, ldp, tpp)

\* tile rows in the last diagonal process used when the ranks are set
last_diag_pr_rows_of(tpp) == tpp

\* lines 256-269: the rank of every tile row, split = 0
RowRanks(nrows, size, ldp, tpp) ==
    LET z == [i \in 1..nrows |-> 0]
        a == SetDiagRanks(z, 0, ldp, tpp)
        ldpr == last_diag_pr_rows_of(tpp)
        b == SetRange(a, tpp * ldp, tpp * ldp + ldpr, ldp)
    IN  SetRestRanks(b, 0, tpp * ldp + ldpr, size, ldp, tpp)

\* lines 270-274: the rank of every tile column, split = 1
RECURSIVE ColRanks(_, _, _, _)
ColRanks(own, pr, st, cpp) ==
    IF pr >= Len(cpp) THEN own
    ELSE ColRanks(SetRange(own, st, st + At(cpp, pr), pr), pr + 1, st + At(cpp, pr), cpp)

NoTiles == [row_per_proc_list |-> <<>>, col_per_proc_list |-> <<>>,
            last_diag_pr |-> 0, tile_map |-> <<>>, row_inds |-> <<>>,
            col_inds |-> <<>>, tile_rows |-> 0, tile_columns |-> 0, error |-> ""]

Raised(e) == [NoTiles EXCEPT !.error = e]

\* The constructor is a chain of steps over the record s of its locals
\* (s.error names the exception raised so far, "" for none).

\* lines 65-90: the arguments, last_diag_pr, rem_cols_last_pr, last_tile_cols
DiagonalProcess(a, tpp, div0) ==
    LET rem == rem_cols_last_pr_of(a.lshape_map, a.split, a.gshape)
    IN  [g0 |-> a.gshape[1], g1 |-> a.gshape[2], split |-> a.split, size |-> a.size,
         lshape_map |-> a.lshape_map, tpp |-> tpp,
         mn |-> Min2(a.gshape[1], a.gshape[2]),
         cs |-> CumSum(SplitExtents(a.lshape_map, a.split)),
         ldp |-> last_diag_pr_of(a.lshape_map, a.split, a.gshape),
         ltc |-> last_tile_cols_loop(rem, tpp),
         cpp |-> <<>>, rpp |-> <<>>, tile_columns |-> 0,
         col_inds |-> <<>>, row_inds |-> <<>>, ranks |-> <<>>,
         error |-> IF DividesByZero(rem, tpp) /\ div0 = "raise"
                   THEN "ZeroDivisionError" ELSE ""]

\* lines 93-99: col_per_proc_list and row_per_proc_list
TilesPerProcess(s) ==
    IF s.error # "" THEN s ELSE
    LET cpp0 == [r \in 1..(s.ldp + 1) |-> IF r = s.ldp + 1 THEN s.ltc ELSE s.tpp]
    IN  [s EXCEPT
            !.cpp = IF s.ldp < s.size - 1 /\ s.split = 1
                    THEN cpp0 \o [r \in 1..(s.size - s.ldp - 1) |-> 1]
                    ELSE cpp0,
            !.rpp = [r \in 1..s.size |-> s.tpp]]

\* lines 101-116: tile_columns, diag_crossings and the column widths
DiagonalColumns(s) ==
    IF s.error # "" THEN s ELSE
    LET dc0 == Prefix(s.cs, s.ldp + 1)
        diag_crossings == <<0>> \o [dc0 EXCEPT ![s.ldp + 1] = IF @ <= s.mn THEN @ ELSE s.mn]
    IN  [s EXCEPT
            !.tile_columns = s.tpp * s.ldp + s.ltc,
            !.col_inds = [c \in 1..(s.tpp * s.ldp + s.ltc) |->
                            chunk(At(diag_crossings, (c - 1) \div s.tpp + 1)
                                    - At(diag_crossings, (c - 1) \div s.tpp),
                                  (c - 1) % s.tpp,
                                  IF (c - 1) \div s.tpp # s.ldp THEN s.tpp ELSE s.ltc)]]

\* lines 118-127: the row heights start as the column widths; the last
\* column takes what is left of a wide array split along the rows
SquareRows(s) ==
    IF s.error # "" THEN s
    ELSE IF s.g0 < s.g1 /\ s.split = 0 /\ Len(s.col_inds) = 0
    THEN [s EXCEPT !.error = "IndexError"]
    ELSE [s EXCEPT
            !.row_inds = [i \in 1..(s.tpp * s.size) |->
                            IF i <= Len(s.col_inds) THEN s.col_inds[i] ELSE 0],
            !.col_inds = IF s.g0 < s.g1 /\ s.split = 0
                         THEN [@ EXCEPT ![Len(@)] = s.g1 - SumSeq(Front(s.col_inds))]
                         ELSE @]

\* lines 129-146: the rows of the last diagonal process below the diagonal
\* become a tile row of their own or join the last diagonal tile row
RowsBelowDiagonal(s) ==
    IF s.error # "" \/ ~(s.ldp < s.size - 1 /\ s.split = 0) THEN s ELSE
    LET diff == At(CumSum(SplitExtents(s.lshape_map, 0)), s.ldp) - s.g1
    IN  IF 2 * diff > At(s.lshape_map, s.ldp)[1]
        THEN [s EXCEPT !.row_inds = ListInsert(@, s.tile_columns, diff),
                       !.rpp = [@ EXCEPT ![s.ldp + 1] = @ + 1]]
        ELSE [s EXCEPT !.row_inds =
                 [@ EXCEPT ![IF s.tile_columns - 1 < 0 THEN Len(@) ELSE s.tile_columns]
                              = @ + diff]]

\* lines 148-163: the columns right of the diagonal, split = 1
ColumnsRightOfDiagonal(s) ==
    IF s.error # "" \/ ~(s.split = 1 /\ s.g1 > s.g0) THEN s ELSE
    LET ext == ExtendCols(0, [col_inds |-> s.col_inds, cpp |-> s.cpp, err |-> FALSE],
                          CumSum(s.cpp), s.lshape_map, s.ldp)
    IN  IF ext.err THEN [s EXCEPT !.error = "IndexError"]
        ELSE [s EXCEPT !.col_inds = ext.col_inds, !.cpp = ext.cpp]

\* lines 201-209: the tile rows of the processes after the diagonal
RowsAfterDiagonal(s) ==
    IF s.error # "" \/ ~(s.g0 > s.g1) THEN s ELSE
    LET nz == ZeroIdx(s.row_inds, 0)
        vals == RestRowChunks(s.ldp + 1, 0, s.lshape_map, s.tpp)
    IN  IF Len(vals) > Len(nz) THEN [s EXCEPT !.error = "IndexError"]
        ELSE [s EXCEPT !.row_inds = FillZeros(@, nz, vals)]

\* line 222
num_ex_row_tiles == 1

\* lines 218-232: the rows below the diagonal of a tall array, split = 1
ExtraRowTiles(s) ==
    IF s.error # "" \/ ~(s.g0 > s.g1 /\ s.split = 1) THEN s
    ELSE IF s.g0 - s.g1 > 10
    THEN [s EXCEPT !.row_inds = @ \o [i \in 1..num_ex_row_tiles |->
                                        chunk(s.g0 - s.g1, i - 1, num_ex_row_tiles)]]
    ELSE [s EXCEPT !.row_inds = [@ EXCEPT ![Len(@)] = s.g0 - SumSeq(Front(s.row_inds))]]

\* lines 234-240: empty tile rows are dropped from a wide array
DropEmptyRows(s) ==
    IF s.error # "" \/ ~(s.g0 < s.g1) THEN s
    ELSE [s EXCEPT !.row_inds = NonZero(@)]

\* lines 242-274: widths and heights become start indices, every tile row
\* (split = 0) or tile column (split = 1) gets its rank
StartsAndRanks(s) ==
    IF s.error # "" THEN s
    ELSE IF Len(s.col_inds) = 0 \/ Len(s.row_inds) = 0
    THEN [s EXCEPT !.error = "IndexError"]
    ELSE [s EXCEPT
            !.col_inds = CumSum(<<0>> \o Front(@)),
            !.row_inds = CumSum(<<0>> \o Front(@)),
            !.ranks = IF s.split = 0
                      THEN RowRanks(Len(s.row_inds), s.size, s.ldp, s.tpp)
                      ELSE ColRanks([j \in 1..Len(s.col_inds) |-> 0], 0, 0, s.cpp)]

\* lines 242-253 and 289-302: the tile map and the fields of the object
TilesObject(s) ==
    IF s.error # "" THEN Raised(s.error)
    ELSE [row_per_proc_list |-> IF s.split = 0 THEN s.rpp
                                ELSE [r \in 1..Len(s.rpp) |-> Len(s.row_inds)],
          col_per_proc_list |-> IF s.split = 1 THEN s.cpp
                                ELSE [r \in 1..Len(s.cpp) |-> Len(s.col_inds)],
          last_diag_pr |-> s.ldp,
          tile_map |-> [i \in 1..Len(s.row_inds) |-> [j \in 1..Len(s.col_inds) |->
                          <<s.row_inds[i], s.col_inds[j],
                            IF s.split = 0 THEN s.ranks[i] ELSE s.ranks[j]>>]],
          row_inds |-> s.row_inds,
          col_inds |-> s.col_inds,
          tile_rows |-> Len(s.row_inds),
          tile_columns |-> Len(s.col_inds),
          error |-> ""]

SquareDiagTilesInit(a, tpp, div0) ==
    TilesObject(StartsAndRanks(DropEmptyRows(ExtraRowTiles(RowsAfterDiagonal(
        ColumnsRightOfDiagonal(RowsBelowDiagonal(SquareRows(DiagonalColumns(
            TilesPerProcess(DiagonalProcess(a, tpp, div0)))))))))))


-----------------------------------------------------------------------------
(* Keys: a key is <<c>> (a bare int or slice) or <<c0, c1>> (a tuple) *)

IntKey(n) == [kind |-> "int", v |-> n, hasstart |-> FALSE, start |-> 0,
              hasstop |-> FALSE, stop |-> 0]

\* slice(start, stop); a missing bound is None
SliceKey(hasstart, start, hasstop, stop) ==
    [kind |-> "slice", v |-> 0, hasstart |-> hasstart, start |-> start,
     hasstop |-> hasstop, stop |-> stop]

\* slice(0, None)
FullSlice == SliceKey(TRUE, 0, FALSE, 0)

\* key = (key, slice(0, None)) for a bare key
AsPair(key) == IF Len(key) = 1 THEN <<key[1], FullSlice>> ELSE key

\* the indices a key component selects on a tensor axis of n entries
Selected(c, n) ==
    IF c.kind = "int" THEN {c.v}
    ELSE LET a == IF c.hasstart THEN c.start ELSE 0
             b == IF c.hasstop THEN Min2(c.stop, n) ELSE n
         IN  {i \in 0..(n - 1) : a <= i /\ i < b}

\* tile_map[key][..., 2].unique()
TileProcs(t, key) ==
    LET k == AsPair(key)
    IN  {t.tile_map[i + 1][j + 1][3] :
            i \in Selected(k[1], t.tile_rows), j \in Selected(k[2], t.tile_columns)}

\* torch raises IndexError for an int index outside the tile map
KeyOutOfRange(t, key) ==
    LET k == AsPair(key)
    IN  \/ k[1].kind = "int" /\ k[1].v >= t.tile_rows
        \/ k[2].kind = "int" /\ k[2].v >= t.tile_columns

NoValue == <<>>

\* get_tile_proc
get_tile_proc(t, key) ==
    IF KeyOutOfRange(t, key) THEN [err |-> "IndexError", val |-> NoValue]
    ELSE [err |-> "", val |-> TileProcs(t, key)]

\* start and stop of one key component against the boundaries inds (which
\* end with the global extent), lines 446-459
StartStop(c, inds, first) ==
    IF c.kind = "int"
    THEN <<At(inds, c.v) - first, At(inds, c.v + 1) - first>>
    ELSE <<(IF c.hasstart THEN At(inds, c.start) ELSE 0) - first,
           (IF c.hasstop THEN At(inds, c.stop) ELSE inds[Len(inds)]) - first>>

\* a list index of a slice bound beyond the boundaries: IndexError
SliceOutOfRange(c, inds) ==
    /\ c.kind = "slice"
    /\ \/ c.hasstart /\ c.start >= Len(inds)
       \/ c.hasstop /\ c.stop >= Len(inds)

get_start_stop(t, a, key) ==
    LET split == a.split
        prs == TileProcs(t, key)
        pr == CHOOSE x \in prs : TRUE
        row_inds == t.row_inds \o <<a.gshape[1]>>
        col_inds == t.col_inds \o <<a.gshape[2]>>
        ri == IF split = 0 THEN SumSeq(Prefix(t.row_per_proc_list, pr)) ELSE 0
        ci == IF split = 1 THEN SumSeq(Prefix(t.col_per_proc_list, pr)) ELSE 0
        k == AsPair(key)
    IN  IF KeyOutOfRange(t, key) THEN [err |-> "IndexError", val |-> NoValue]
        ELSE IF Cardinality(prs) > 1 THEN [err |-> "ValueError", val |-> NoValue]
        ELSE IF Cardinality(prs) = 0 THEN [err |-> "TypeError", val |-> NoValue]
        ELSE IF ri >= Len(row_inds) \/ ci >= Len(col_inds)
             THEN [err |-> "IndexError", val |-> NoValue]
        ELSE IF SliceOutOfRange(k[1], row_inds) \/ SliceOutOfRange(k[2], col_inds)
             THEN [err |-> "IndexError", val |-> NoValue]
        ELSE [err |-> "",
              val |-> StartStop(k[1], row_inds, At(row_inds, ri))
                      \o StartStop(k[2], col_inds, At(col_inds, ci))]

\* one key component converted by local_to_global, lines 637-643 / 650-656
ToGlobal(c, prev, loc) ==
    IF c.kind = "int" THEN IntKey(c.v + prev)
    ELSE LET start == IF c.hasstart THEN c.start + prev ELSE prev
             stop0 == IF c.hasstop THEN c.stop + prev ELSE prev + loc
             stop == IF stop0 - start < loc THEN stop0 ELSE start + loc
         IN  SliceKey(TRUE, start, TRUE, stop)

local_to_global(t, a, key, rank) ==
    LET k == AsPair(key)
        prev_rows == SumSeq(Prefix(t.row_per_proc_list, rank))
        loc_rows == At(t.row_per_proc_list, rank)
        prev_cols == SumSeq(Prefix(t.col_per_proc_list, rank))
        loc_cols == At(t.col_per_proc_list, rank)
    IN  IF a.split = 0 THEN <<ToGlobal(k[1], prev_rows, loc_rows), k[2]>>
        ELSE <<k[1], ToGlobal(k[2], prev_cols, loc_cols)>>

-----------------------------------------------------------------------------
(* The tiling specifications *)

MaxKey == MaxTilesPerProc * MaxProcs + 1
MaxSlice == 2

KeyInts == {IntKey(n) : n \in 0..MaxKey}
KeySlices == {SliceKey(TRUE, s, TRUE, p) : s \in 0..MaxSlice, p \in 1..(MaxSlice + 1)}
             \cup {SliceKey(TRUE, s, FALSE, 0) : s \in 0..MaxSlice}
             \cup {SliceKey(FALSE, 0, TRUE, p) : p \in 1..(MaxSlice + 1)}
             \cup {SliceKey(FALSE, 0, FALSE, 0)}
KeyComps == KeyInts \cup KeySlices
OtherComps == {IntKey(0), SliceKey(FALSE, 0, FALSE, 0)}

\* the keys tried on an array split along axis split
Keys(split) ==
    IF split = 0
    THEN {<<c>> : c \in KeyComps} \cup {<<c, d>> : c \in KeyComps, d \in OtherComps}
    ELSE {<<d>> : d \in OtherComps} \cup {<<d, c>> : c \in KeyComps, d \in OtherComps}

\* single tile coordinates
CoordKeys == {<<IntKey(i), IntKey(j)>> : i \in 0..MaxKey, j \in 0..MaxKey}

NoCall == [op |-> "none", rank |-> 0, lkey |-> NoValue, key |-> NoValue,
           err |-> "", val |-> NoValue]

DpIdle ==
    /\ mode = "none"
    /\ comm_size = 0
    /\ training = FALSE
    /\ module = <<>>
    /\ lgrad = <<>>
    /\ border = <<>>
    /\ pc = <<>>
    /\ nback = <<>>
    /\ passStart = <<>>
    /\ sendbuf = <<>>
    /\ grad = <<>>
    /\ wait_handles = <<>>
    /\ fwd_hook_handles = <<>>
    /\ registered = <<>>
    /\ flayer = <<>>
    /\ waitlog = <<>>
    /\ optimizer = <<>>
    /\ ctor = <<>>

\* no tile was written and the grid was matched against no other grid
Untouched ==
    /\ nset = 0
    /\ matched = <<>>

InitGrid(maxdim) ==
    /\ \E g0 \in 1..maxdim, g1 \in 1..maxdim, split \in {0, 1}, size \in 1..MaxProcs :
          arr = [gshape |-> <<g0, g1>>, split |-> split, size |-> size,
                 lshape_map |-> BalancedMap(<<g0, g1>>, split, size)]
    /\ tile_per_proc \in 1..MaxTilesPerProc
    /\ tiles = NoTiles
    /\ tpc = "new"
    /\ tcall = NoCall
    /\ Untouched
    /\ DpIdle

\* the local tensors are not part of these specifications
InitArr(maxdim) == InitGrid(maxdim) /\ larray = <<>>

InitTiles == InitArr(MaxDim)

InitAccess == InitArr(MaxAccDim)

\* SquareDiagTiles(arr, tile_per_proc)
Construct ==
    /\ tpc = "new"
    /\ \E div0 \in {"raise", "inf"} :
          tiles' = SquareDiagTilesInit(arr, tile_per_proc, div0)
    /\ tpc' = IF tiles'.error = "" THEN "built" ELSE "raised"
    /\ UNCHANGED <<arr, tile_per_proc, tcall, svars, dvars>>

Called(op, key, r) ==
    tcall' = [NoCall EXCEPT !.op = op, !.key = key, !.err = r.err, !.val = r.val]

\* tiles.get_tile_proc((i, j)) for one tile coordinate
GetTileProcCoord ==
    /\ tpc = "built" /\ tcall.op = "none"
    /\ \E key \in CoordKeys : Called("get_tile_proc", key, get_tile_proc(tiles, key))
    /\ UNCHANGED <<arr, tile_per_proc, tiles, tpc, svars, dvars>>

\* tiles.get_tile_proc(key)
GetTileProc ==
    /\ tpc = "built" /\ tcall.op = "none"
    /\ \E key \in Keys(arr.split) : Called("get_tile_proc", key, get_tile_proc(tiles, key))
    /\ UNCHANGED <<arr, tile_per_proc, tiles, tpc, svars, dvars>>

\* tiles.get_start_stop(key)
GetStartStop ==
    /\ tpc = "built" /\ tcall.op = "none"
    /\ \E key \in Keys(arr.split) :
          Called("get_start_stop", key, get_start_stop(tiles, arr, key))
    /\ UNCHANGED <<arr, tile_per_proc, tiles, tpc, svars, dvars>>

\* tiles.local_to_global(key, rank)
LocalToGlobal ==
    /\ tpc = "built" /\ tcall.op = "none"
    /\ \E key \in Keys(arr.split), rank \in 0..(arr.size - 1) :
          tcall' = [NoCall EXCEPT !.op = "local_to_global", !.rank = rank,
                                  !.lkey = key,
                                  !.key = local_to_global(tiles, arr, key, rank)]
    /\ UNCHANGED <<arr, tile_per_proc, tiles, tpc, svars, dvars>>

\* tiles.get_start_stop(tiles.local_to_global(key, rank))
LocalStartStop ==
    /\ tpc = "built"
    /\ tcall.op = "local_to_global"
    /\ LET r == get_start_stop(tiles, arr, tcall.key)
       IN  tcall' = [tcall EXCEPT !.op = "local_start_stop", !.err = r.err, !.val = r.val]
    /\ UNCHANGED <<arr, tile_per_proc, tiles, tpc, svars, dvars>>

\* the caller is done with the result of its last call
Discard ==
    /\ tcall.op # "none"
    /\ tcall' = NoCall
    /\ UNCHANGED <<arr, tile_per_proc, tiles, tpc, svars, dvars>>

NextTiles == Construct \/ GetTileProcCoord \/ Discard

SpecTiles == InitTiles /\ [][NextTiles]_vars

NextAccess ==
    Construct \/ GetTileProc \/ GetStartStop \/ LocalToGlobal \/ LocalStartStop \/ Discard

SpecAccess == InitAccess /\ [][NextAccess]_vars

-----------------------------------------------------------------------------
(* Claims about the tile grid *)

StrictlyIncreasing(s) == \A i \in 1..(Len(s) - 1) : s[i] < s[i + 1]

\* the boundaries along the split axis, followed by the global extent
SplitBounds(t, a) ==
    IF a.split = 0 THEN t.row_inds \o <<a.gshape[1]>> ELSE t.col_inds \o <<a.gshape[2]>>

\* the rank stored for the tile of index k (from 0) along the split axis
SplitOwner(t, a, k) ==
    IF a.split = 0 THEN t.tile_map[k + 1][1][3] ELSE t.tile_map[1][k + 1][3]

\* number of tiles along the split axis
SplitTiles(t, a) == IF a.split = 0 THEN t.tile_rows ELSE t.tile_columns

\* sum of the split-axis extents of the tiles whose stored rank is r
OwnedExtent(t, a, r) ==
    LET b == SplitBounds(t, a)
        ext == [k \in 1..SplitTiles(t, a) |->
                    IF SplitOwner(t, a, k - 1) = r THEN b[k + 1] - b[k] ELSE 0]
    IN  SumSeq(ext)

\* C3: in every constructed grid the row boundaries start at 0 and, followed
\* by global_rows, are strictly increasing, and likewise the column
\* boundaries followed by global_cols (no empty tile, exact cover).
C3_BoundariesStrict ==
    tpc = "built" =>
        /\ tiles.row_inds[1] = 0
        /\ tiles.col_inds[1] = 0
        /\ StrictlyIncreasing(tiles.row_inds \o <<arr.gshape[1]>>)
        /\ StrictlyIncreasing(tiles.col_inds \o <<arr.gshape[2]>>)

\* C4: in every constructed grid every tile has one owning rank (a rank of
\* the communicator), and for every rank r the split-axis extents of the
\* tiles owned by r sum to r's local extent in the local shape map.
C4_OwnerMatchesLocalShape ==
    tpc = "built" =>
        /\ \A i \in 1..tiles.tile_rows, j \in 1..tiles.tile_columns :
              tiles.tile_map[i][j][3] \in 0..(arr.size - 1)
        /\ \A r \in 0..(arr.size - 1) :
              OwnedExtent(tiles, arr, r) = At(arr.lshape_map, r)[arr.split + 1]

\* the local key of the last local_to_global call is the int i along the
\* split axis, 0 <= i < tiles of that rank
LocalTileQuery ==
    /\ tcall.op = "local_start_stop"
    /\ LET k == AsPair(tcall.lkey)
           c == k[arr.split + 1]
           n == IF arr.split = 0 THEN At(tiles.row_per_proc_list, tcall.rank)
                ELSE At(tiles.col_per_proc_list, tcall.rank)
       IN  c.kind = "int" /\ c.v < n

\* the first global index of rank r along the split axis
RankOffset(a, r) == SumSeq(Prefix(SplitExtents(a.lshape_map, a.split), r))

\* C10: local_to_global(i, r) followed by the tile bounds lookup yields a
\* tile owned by r whose split-axis offsets satisfy
\* 0 <= start < stop <= local extent of r and are the global boundaries
\* minus r's starting offset.
C10_LocalBounds ==
    LocalTileQuery =>
        LET r == tcall.rank
            g == AsPair(tcall.key)[arr.split + 1].v
            b == SplitBounds(tiles, arr)
            start == tcall.val[2 * arr.split + 1]
            stop == tcall.val[2 * arr.split + 2]
        IN  /\ tcall.err = ""
            /\ TileProcs(tiles, tcall.key) = {r}
            /\ 0 <= start /\ start < stop
            /\ stop <= At(arr.lshape_map, r)[arr.split + 1]
            /\ start = At(b, g) - RankOffset(arr, r)
            /\ stop = At(b, g + 1) - RankOffset(arr, r)

-----------------------------------------------------------------------------
(* DataParallel: gradients, reductions and the wrapped module *)

RECURSIVE GCD(_, _)
GCD(a, b) == IF b = 0 THEN a ELSE GCD(b, a % b)

\* the rational n / d (d > 0) in lowest terms
Rat(n, d) == LET g == GCD(Abs(n), d) IN [num |-> n \div g, den |-> d \div g]

RatAdd(x, y) == Rat(x.num * y.den + y.num * x.den, x.den * y.den)

RatMul(x, y) == Rat(x.num * y.num, x.den * y.den)

Zero == Rat(0, 1)

\* blocking_hook without line 145: the copy keeps the local gradient
ScaleGradUnscaled(g, size) == g

\* blocking_hook, line 145: grad_loc_cpy *= 1 / float(self.comm.size)
ScaleGrad(g, size) == RatMul(g, Rat(1, size))

\* _hook without line 183: the copy keeps the local gradient
CounterbalanceGradUnscaled(g, size) == g

\* _hook, line 183 ("counterbalance local gradient averaging"):
\* grad_loc_cpy *= 1 / float(self.comm.size)
CounterbalanceGrad(g, size) == RatMul(g, Rat(1, size))

\* the modules wrapped: parameter names are paths, "a.weight" is <<"a", "weight">>,
\* sizes are the flattened element counts of the parameters.  The two
\* parameters of layer a differ in size in LayeredModule and are of equal
\* size in RootParamModule, whose third parameter belongs to the root module
LayeredModule ==
    [named_parameters |-> << <<"a", "weight">>, <<"a", "bias">>, <<"b", "weight">> >>,
     sizes |-> <<100, 4, 100>>,
     named_modules |-> <<"a", "b">>]
RootParamModule ==
    [named_parameters |-> << <<"a", "weight">>, <<"a", "bias">>, <<"b">> >>,
     sizes |-> <<4, 4, 100>>,
     named_modules |-> <<"a">>]
Modules == {LayeredModule, RootParamModule}


Procs == 1..comm_size
Params == 1..Len(module.named_parameters)

\* layer_name = name.split(sep=".", maxsplit=1)[0]
LayerName(name) == name[1]

LayerOf(i) == LayerName(module.named_parameters[i])

\* every process of the group has issued reduction k
ReductionComplete(k) == \A q \in Procs : Len(sendbuf[q]) >= k

\* the result of (I)allreduce k with MPI.SUM
RECURSIVE SumBuffers(_, _)
SumBuffers(k, q) ==
    IF q = 0 THEN Zero
    ELSE RatAdd(SumBuffers(k, q - 1),
                IF k <= Len(sendbuf[q]) THEN sendbuf[q][k] ELSE Zero)

AllreduceSum(k) == SumBuffers(k, comm_size)

\* the parameters whose hook autograd may fire next on process p: all
\* processes run the same graph, so they fire in the same order; autograd
\* walks the graph backwards, the parameters of the last layer come first,
\* those of one layer in any order
NextParams(p) ==
    LET k == Len(sendbuf[p]) + 1
        unfired == Params \ {border[j] : j \in (passStart[p] + 1)..Len(border)}
        last == CHOOSE i \in unfired : \A j \in unfired : j <= i
    IN  IF k <= Len(border) THEN {border[k]}
        ELSE {i \in unfired : LayerOf(i) = LayerOf(last)}

\* the number of hooks process p has fired in its running backward pass
Fired(p) == Len(sendbuf[p]) - passStart[p]

EmptyDict == [l \in {} |-> <<>>]

TilesIdle ==
    /\ arr = [gshape |-> <<0, 0>>, split |-> 0, size |-> 0, lshape_map |-> <<>>]
    /\ tile_per_proc = 0
    /\ tiles = NoTiles
    /\ tpc = "none"
    /\ tcall = NoCall
    /\ larray = <<>>
    /\ Untouched

\* DataParallel(module, comm, optimizer) on every process: the maps are
\* empty and every parameter has its gradient hook.  Line 95 hands
\* nonblocking_hook two arguments where it takes one; the closure
\* nonblocking_hook(layer_name) is taken as registered on every parameter,
\* which is what the hook itself is written for
InitDP ==
    /\ mode \in {"blocking", "nonblocking"}
    /\ comm_size \in 1..MaxRanks
    /\ training \in BOOLEAN
    /\ module \in Modules
    \* blocking mode does not read the training flag (line 111)
    /\ mode = "blocking" => training
    \* every process computes its own local gradients: 2, 3, 4 on the first
    \* process, 4, 5, 6 on the second, ...
    /\ lgrad = [p \in 1..comm_size |-> [i \in 1..3 |-> 2 * p + i - 1]]
    /\ border = <<>>
    /\ pc = [p \in 1..comm_size |-> "idle"]
    /\ nback = [p \in 1..comm_size |-> 0]
    /\ passStart = [p \in 1..comm_size |-> 0]
    /\ sendbuf = [p \in 1..comm_size |-> <<>>]
    /\ grad = [p \in 1..comm_size |-> [i \in 1..3 |-> Zero]]
    /\ wait_handles = [p \in 1..comm_size |-> EmptyDict]
    /\ fwd_hook_handles = [p \in 1..comm_size |-> <<>>]
    /\ registered = [p \in 1..comm_size |-> {}]
    /\ flayer = [p \in 1..comm_size |-> 0]
    /\ waitlog = [p \in 1..comm_size |-> <<>>]
    /\ optimizer = [given |-> mode = "nonblocking",
                    params |-> IF mode = "nonblocking" THEN <<1, 2, 3>> ELSE <<>>]
    /\ ctor = <<>>
    /\ TilesIdle

fixedDP == <<mode, comm_size, training, module, lgrad, cvars>>

\* loss.backward() starts on process p; the training loop zeroes the
\* gradients it owns beforehand (in non-blocking mode the optimizer's
\* parameter list was emptied, line 78, so nothing is zeroed)
BackwardStartOn(p) ==
    /\ pc[p] = "fwd_done"
    /\ nback[p] < MaxBackward
    /\ pc' = [pc EXCEPT ![p] = "backward"]
    /\ nback' = [nback EXCEPT ![p] = @ + 1]
    /\ passStart' = [passStart EXCEPT ![p] = Len(sendbuf[p])]
    /\ grad' = IF mode = "blocking"
               THEN [grad EXCEPT ![p] = [i \in Params |-> Zero]]
               ELSE grad
    /\ UNCHANGED <<fixedDP, border, sendbuf, wait_handles, fwd_hook_handles,
                   registered, flayer, waitlog, tvars>>

\* a collective that is matched against the next call of the other
\* processes: it returns once they have entered the reduction after this one
AllreduceReturnsWithNext(k) == ReductionComplete(k + 1)

\* a call that returns without waiting for the reduction (comm.Iallreduce
\* with the handle dropped)
AllreduceReturnsAtOnce(k) == TRUE

\* blocking_hook, line 147: comm.Allreduce is the blocking collective, the
\* call returns when reduction k is complete
AllreduceReturns(k) == ReductionComplete(k)

\* blocking_hook, lines 143-147: the copy is scaled and handed to Allreduce
BlockingHookEnterOn(p) ==
    /\ mode = "blocking"
    /\ pc[p] = "backward"
    /\ \E i \in NextParams(p) :
          /\ sendbuf' = [sendbuf EXCEPT ![p] =
                            Append(@, ScaleGrad(Rat(lgrad[p][i], 1), comm_size))]
          /\ border' = IF Len(sendbuf[p]) + 1 > Len(border) THEN Append(border, i)
                       ELSE border
    /\ pc' = [pc EXCEPT ![p] = "allreduce"]
    /\ UNCHANGED <<fixedDP, nback, passStart, grad, wait_handles, fwd_hook_handles,
                   registered, flayer, waitlog, tvars>>

\* blocking_hook, lines 147-148: Allreduce returns, the hook returns the
\* reduced copy and autograd takes it as the gradient of the parameter
BlockingHookReturnOn(p) ==
    /\ mode = "blocking"
    /\ pc[p] = "allreduce"
    /\ LET k == Len(sendbuf[p])
           i == border[k]
       IN  /\ AllreduceReturns(k)
           /\ grad' = [grad EXCEPT ![p][i] = RatAdd(@, AllreduceSum(k))]
    /\ pc' = [pc EXCEPT ![p] = IF Fired(p) = Len(module.named_parameters)
                                THEN "idle" ELSE "backward"]
    /\ UNCHANGED <<fixedDP, border, nback, passStart, sendbuf, wait_handles,
                   fwd_hook_handles, registered, flayer, waitlog, tvars>>

\* queue.append((size1D, wait_handle)) in place of bisect.insort
InsortPositionsAppend(queue, size1D) == {Len(queue)}

\* bisect.insort(queue, (size1D, wait_handle)): the positions the entry may
\* take; entries of equal size are ordered by comparing the handles
InsortPositions(queue, size1D) ==
    LET lo == Cardinality({j \in 1..Len(queue) : queue[j].size < size1D})
        hi == Cardinality({j \in 1..Len(queue) : queue[j].size <= size1D})
    IN  lo..hi

\* (size1D, wait_handle) has to be compared with an entry of equal size
InsortComparesHandles(queue, size1D) ==
    \E j \in 1..Len(queue) : queue[j].size = size1D

\* every process but p has issued reduction j
OthersIssued(p, j) == \A q \in Procs \ {p} : Len(sendbuf[q]) >= j

\* a hook that waits on the handle it has just been given
HookWaitsForOwn(p, k) == {k}

\* _hook, lines 185-193: the reductions the hook of process p waits for
\* before it returns, k being the one it issues: comm.Iallreduce hands back
\* the handle at once and the hook calls no wait on any handle
HookWaitsFor(p, k) == {}

\* every reduction the hook of process p waits for has been issued by the
\* other processes: the hook runs to its return
HookReturns(p) ==
    \A j \in HookWaitsFor(p, Len(sendbuf[p]) + 1) : OthersIssued(p, j)

\* nonblocking_hook._hook, lines 181-193
NonblockingHookOn(p) ==
    /\ mode = "nonblocking"
    /\ pc[p] = "backward"
    /\ HookReturns(p)
    /\ \E i \in NextParams(p) :
        LET k == Len(sendbuf[p]) + 1
            layer_name == LayerOf(i)
            wh == wait_handles[p]
            wh1 == IF layer_name \notin DOMAIN wh THEN (layer_name :> <<>>) @@ wh ELSE wh
            size1D == module.sizes[i]
            entry == [size |-> size1D, handle |-> k]
        IN  /\ sendbuf' = [sendbuf EXCEPT ![p] =
                              Append(@, CounterbalanceGrad(Rat(lgrad[p][i], 1), comm_size))]
            /\ border' = IF k > Len(border) THEN Append(border, i) ELSE border
            /\ \/ \E pos \in InsortPositions(wh1[layer_name], size1D) :
                     /\ wait_handles' = [wait_handles EXCEPT ![p] =
                            [wh1 EXCEPT ![layer_name] = ListInsert(@, pos, entry)]]
                     /\ grad' = [grad EXCEPT ![p][i] = RatAdd(@, Rat(lgrad[p][i], 1))]
                     /\ pc' = [pc EXCEPT ![p] =
                                  IF Fired(p) + 1 = Len(module.named_parameters)
                                  THEN "idle" ELSE "backward"]
               \/ \* the handles are not orderable: TypeError out of the hook
                  /\ InsortComparesHandles(wh1[layer_name], size1D)
                  /\ wait_handles' = [wait_handles EXCEPT ![p] = wh1]
                  /\ grad' = grad
                  /\ pc' = [pc EXCEPT ![p] = "aborted"]
    /\ UNCHANGED <<fixedDP, nback, passStart, fwd_hook_handles, registered,
                   flayer, waitlog, tvars>>

\* forward without lines 115-120: no pre-forward hook is registered
HooksToRegisterNone(p) == <<>>

\* forward, lines 111-120: the submodules that get a pre-forward hook
HooksToRegister(p) ==
    IF mode = "nonblocking" /\ training
    THEN SelectSeq(module.named_modules, LAMBDA name : name \in DOMAIN wait_handles[p])
    ELSE <<>>

SeqToSet(s) == {s[j] : j \in 1..Len(s)}

\* the entries of a wait log made by the hook of layer
LayerLog(log, layer) == SelectSeq(log, LAMBDA e : e.layer = layer)

\* the wrapped module runs its submodules in order; a submodule computes
\* once its pre-forward hooks have returned.  The index of the first
\* submodule from n on that is still held by a hook with handles left to
\* wait for (one past the last submodule if there is none)
RECURSIVE NextHeld(_, _, _, _)
NextHeld(n, hooked, wh, log) ==
    IF n > Len(module.named_modules) THEN n
    ELSE LET layer == module.named_modules[n]
         IN  IF layer \in hooked /\ Len(LayerLog(log, layer)) < Len(wh[layer])
             THEN n
             ELSE NextHeld(n + 1, hooked, wh, log)

\* forward, lines 100-122: the hooks are registered and the wrapped module
\* is called
ForwardBeginOn(p) ==
    /\ pc[p] = "idle"
    /\ LET hooks == HooksToRegister(p)
       IN  /\ fwd_hook_handles' = [fwd_hook_handles EXCEPT ![p] = @ \o hooks]
           /\ registered' = [registered EXCEPT ![p] = @ \cup SeqToSet(hooks)]
           /\ flayer' = [flayer EXCEPT ![p] =
                            NextHeld(1, registered[p] \cup SeqToSet(hooks),
                                     wait_handles[p], <<>>)]
    /\ pc' = [pc EXCEPT ![p] = "forward"]
    /\ waitlog' = [waitlog EXCEPT ![p] = <<>>]
    /\ UNCHANGED <<fixedDP, border, nback, passStart, sendbuf, grad, wait_handles, tvars>>

\* forward_hook(layer)._hook: wait for the next handle of the layer (smallest
\* first) and copy the averaged gradient into the parameter slot
ForwardHookWaitOn(p) ==
    /\ pc[p] = "forward"
    /\ flayer[p] <= Len(module.named_modules)
    /\ LET layer == module.named_modules[flayer[p]]
           n == Len(LayerLog(waitlog[p], layer)) + 1
           e == wait_handles[p][layer][n]
           log == Append(waitlog[p],
                         [layer |-> layer, size |-> e.size, handle |-> e.handle])
       IN  /\ ReductionComplete(e.handle)
           /\ waitlog' = [waitlog EXCEPT ![p] = log]
           /\ grad' = [grad EXCEPT ![p][border[e.handle]] = AllreduceSum(e.handle)]
           /\ flayer' = [flayer EXCEPT ![p] =
                            NextHeld(@, registered[p], wait_handles[p], log)]
    /\ UNCHANGED <<fixedDP, border, pc, nback, passStart, sendbuf, wait_handles,
                   fwd_hook_handles, registered, tvars>>

\* forward without line 124: the map is left as it is
ClearWaitHandlesKeep(wh) == wh

\* forward, line 124: self.wait_handles.clear()
ClearWaitHandles(wh) == EmptyDict

\* forward, lines 123-128: the module returned
ForwardEndOn(p) ==
    /\ pc[p] = "forward"
    /\ flayer[p] = Len(module.named_modules) + 1
    /\ wait_handles' = [wait_handles EXCEPT ![p] = ClearWaitHandles(@)]
    /\ registered' = [registered EXCEPT ![p] = @ \ SeqToSet(fwd_hook_handles[p])]
    /\ pc' = [pc EXCEPT ![p] = "fwd_done"]
    /\ UNCHANGED <<fixedDP, border, nback, passStart, sendbuf, grad,
                   fwd_hook_handles, flayer, waitlog, tvars>>

BackwardStart == \E p \in Procs : BackwardStartOn(p)
BlockingHookEnter == \E p \in Procs : BlockingHookEnterOn(p)
BlockingHookReturn == \E p \in Procs : BlockingHookReturnOn(p)
NonblockingHook == \E p \in Procs : NonblockingHookOn(p)
ForwardBegin == \E p \in Procs : ForwardBeginOn(p)
ForwardHookWait == \E p \in Procs : ForwardHookWaitOn(p)
ForwardEnd == \E p \in Procs : ForwardEndOn(p)

NextDP ==
    \/ BackwardStart
    \/ BlockingHookEnter
    \/ BlockingHookReturn
    \/ NonblockingHook
    \/ ForwardBegin
    \/ ForwardHookWait
    \/ ForwardEnd

SpecDP == InitDP /\ [][NextDP]_vars

-----------------------------------------------------------------------------
(* Claims about the gradient synchronizer *)

\* the number of gradient hooks that have returned on process p
Returned(p) == Len(sendbuf[p]) - (IF pc[p] = "allreduce" THEN 1 ELSE 0)

\* the average over all processes of the local gradients of parameter i
RECURSIVE SumLocal(_, _)
SumLocal(i, q) == IF q = 0 THEN 0 ELSE SumLocal(i, q - 1) + lgrad[q][i]

Average(i) == Rat(SumLocal(i, comm_size), comm_size)

\* reduction k belongs to the running (or last) backward pass of process p
\* and its hook has returned on every process
HookRanEverywhere(p, k) ==
    /\ k > passStart[p]
    /\ \A q \in Procs : Returned(q) >= k

\* C1: blocking mode: once the gradient hook of a parameter has run on every
\* process, the gradient every process holds for it is the sum of the local
\* gradients divided by the process count, the same on all processes.
C1_BlockingAverage ==
    mode = "blocking" =>
        \A p \in Procs : \A k \in 1..Len(border) :
            HookRanEverywhere(p, k) => grad[p][border[k]] = Average(border[k])

\* 2 processes with local gradients 2 and 4: both hold 3
C1_Witness ==
    /\ mode = "blocking" /\ comm_size = 2
    /\ \E k \in 1..Len(border) :
          /\ HookRanEverywhere(1, k) /\ HookRanEverywhere(2, k)
          /\ lgrad[1][border[k]] = 2 /\ lgrad[2][border[k]] = 4
          /\ grad[1][border[k]] = Rat(3, 1) /\ grad[2][border[k]] = Rat(3, 1)

\* C2: blocking mode: a hook has returned on a process only if every process
\* has entered the reduction of the same parameter, and no process is more
\* than one reduction ahead of any other.
C2_BlockingBarrier ==
    mode = "blocking" =>
        \A p \in Procs, q \in Procs :
            /\ Len(sendbuf[q]) >= Returned(p)
            /\ Len(sendbuf[p]) <= Len(sendbuf[q]) + 1

\* a hook has returned on process 1 while process 2 is still inside the
\* same reduction
C2_Witness ==
    /\ mode = "blocking" /\ comm_size = 2
    /\ pc[2] = "allreduce"
    /\ Returned(1) = Len(sendbuf[2]) /\ Returned(1) >= 1

StartedLayers(p) ==
    {module.named_modules[n] : n \in 1..(flayer[p] - 1)} \cap DOMAIN wait_handles[p]

\* the handles layer's hook waited on are exactly the queue of the layer, in
\* queue order, and all of them have completed
WaitedAll(p, layer) ==
    LET queue == wait_handles[p][layer]
        log == LayerLog(waitlog[p], layer)
    IN  /\ Len(log) = Len(queue)
        /\ \A j \in 1..Len(queue) :
              /\ log[j].handle = queue[j].handle
              /\ ReductionComplete(queue[j].handle)

\* the hook of a layer waits on handles of that layer only, smallest first
WaitsInOrder(p) ==
    /\ \A e \in SeqToSet(waitlog[p]) :
          /\ e.layer \in DOMAIN wait_handles[p]
          /\ \E j \in 1..Len(wait_handles[p][e.layer]) :
                wait_handles[p][e.layer][j].handle = e.handle
          /\ LayerOf(border[e.handle]) = e.layer
    /\ \A layer \in DOMAIN wait_handles[p] :
          LET log == LayerLog(waitlog[p], layer)
          IN  \A j \in 1..Len(log), jj \in 1..Len(log) :
                  j < jj => log[j].size <= log[jj].size

HookRan(p) ==
    {module.named_modules[n] : n \in 1..(flayer[p] - 1)} \cap registered[p]

C8_ClearedAfterForward ==
    \A p \in Procs :
        /\ pc[p] = "fwd_done" => (wait_handles[p] = EmptyDict /\ registered[p] = {})
        /\ \A layer \in DOMAIN wait_handles[p] :
              \A j \in 1..Len(wait_handles[p][layer]) :
                  wait_handles[p][layer][j].handle > passStart[p]

\* a forward pass that found handles of the preceding backward pass returned
C8_Witness ==
    \E p \in Procs :
        /\ mode = "nonblocking"
        /\ pc[p] = "fwd_done"
        /\ nback[p] >= 1
        /\ Len(sendbuf[p]) = nback[p] * Len(module.named_parameters)
        /\ wait_handles[p] = EmptyDict

-----------------------------------------------------------------------------
(* More claims about the tile grid *)

\* a constructed grid of a tall array split along the rows
TallRowSplit == tpc = "built" /\ arr.split = 0 /\ arr.gshape[1] > arr.gshape[2]

\* C11: rows-split, global_rows > global_cols: the row boundaries smaller
\* than global_cols are the column boundaries, every row tile after the
\* diagonal ones starts at a row >= global_cols, and every tile of a rank
\* above the last diagonal rank starts at a row >= global_cols.
C11_BelowDiagonal ==
    TallRowSplit =>
        /\ {r \in SeqToSet(tiles.row_inds) : r < arr.gshape[2]} = SeqToSet(tiles.col_inds)
        /\ \A i \in (tiles.tile_columns + 1)..tiles.tile_rows :
              tiles.row_inds[i] >= arr.gshape[2]
        /\ \A i \in 1..tiles.tile_rows :
              tiles.tile_map[i][1][3] > tiles.last_diag_pr
                  => tiles.row_inds[i] >= arr.gshape[2]

\* the result of the loop of lines 82-90 for the array and tile_per_proc
\* the constructor was called with
LastTileCols ==
    last_tile_cols_loop(rem_cols_last_pr_of(arr.lshape_map, arr.split, arr.gshape),
                        tile_per_proc)

\* C18: the loop adjusting the tile count of the last diagonal rank ends
\* without an error for every tiles_per_process >= 1 and its result n
\* satisfies 1 <= n <= tiles_per_process.
C18_LastTileColsInRange ==
    tpc # "new" =>
        /\ tiles.error # "ZeroDivisionError"
        /\ 1 <= LastTileCols /\ LastTileCols <= tile_per_proc

\* the per-process tile counts along the split axis
SplitCounts(t, a) == IF a.split = 0 THEN t.row_per_proc_list ELSE t.col_per_proc_list

\* C16: after construction every stored owner rank is in 0..P-1, the
\* per-process tile counts along the split axis sum to the number of tiles
\* along that axis, and the owner of the split-axis tile index k is the rank
\* whose block of counts contains k, the ranks appearing in increasing order.
C16_OwnerBlocks ==
    tpc = "built" =>
        LET counts == SplitCounts(tiles, arr)
            n == SplitTiles(tiles, arr)
        IN  /\ \A k \in 0..(n - 1) : SplitOwner(tiles, arr, k) \in 0..(arr.size - 1)
            /\ SumSeq(counts) = n
            /\ \A k \in 0..(n - 1) :
                  LET r == SplitOwner(tiles, arr, k)
                  IN  /\ SumSeq(Prefix(counts, r)) <= k
                      /\ k < SumSeq(Prefix(counts, r + 1))
            /\ \A k \in 0..(n - 2) :
                  SplitOwner(tiles, arr, k) <= SplitOwner(tiles, arr, k + 1)


\* the rank on which the diagonal ends is not the last rank of a row-split array
DiagonalEndsEarly ==
    tpc = "built" /\ arr.split = 0 /\ tiles.last_diag_pr < arr.size - 1

\* the rows of the last diagonal rank that lie below the diagonal
RowsBeyondDiagonal ==
    CumSum(SplitExtents(arr.lshape_map, 0))[tiles.last_diag_pr + 1] - arr.gshape[2]

\* the number of tiles on the diagonal
DiagonalTiles == tile_per_proc * tiles.last_diag_pr + LastTileCols

\* C17: when the diagonal of a row-split array ends on a rank that is not the
\* last one, and the rows of that rank below the diagonal are more than half
\* of its local rows, one row tile covering exactly those rows follows the
\* diagonal row tiles, it is owned by that rank, and the rank has
\* tile_per_proc + 1 row tiles; otherwise no tile is added: the rank keeps
\* tile_per_proc row tiles and its last diagonal row tile ends where the
\* rank's rows end.
C17_ExtraRowTile ==
    DiagonalEndsEarly =>
        LET ldp == tiles.last_diag_pr
            ends == CumSum(SplitExtents(arr.lshape_map, 0))[ldp + 1]
            b == tiles.row_inds \o <<arr.gshape[1]>>
            tc == DiagonalTiles
        IN  IF 2 * RowsBeyondDiagonal > arr.lshape_map[ldp + 1][1]
            THEN /\ tc < tiles.tile_rows
                 /\ At(b, tc) = arr.gshape[2]
                 /\ At(b, tc + 1) = ends
                 /\ tiles.tile_map[tc + 1][1][3] = ldp
                 /\ At(tiles.row_per_proc_list, ldp) = tile_per_proc + 1
            ELSE /\ At(tiles.row_per_proc_list, ldp) = tile_per_proc
                 /\ tc <= tiles.tile_rows
                 /\ At(b, tc) = ends


\* a local_to_global call whose component along the split axis is a range
\* that starts inside the rank's own tiles
LocalRangeCall ==
    /\ tcall.op = "local_to_global"
    /\ LET c == AsPair(tcall.lkey)[arr.split + 1]
           n == At(SplitCounts(tiles, arr), tcall.rank)
       IN  /\ c.kind = "slice"
           /\ (IF c.hasstart THEN c.start ELSE 0) < n

\* C19: local_to_global turns a range along the split axis whose start lies
\* within the rank's n tiles into a range inside the rank's block: with prev
\* the tile count of the preceding ranks, prev <= start and stop <= prev + n,
\* whether the stop is given, too large or left out; the component of the
\* other axis is returned as passed.
C19_GlobalRangeInBlock ==
    LocalRangeCall =>
        LET counts == SplitCounts(tiles, arr)
            prev == SumSeq(Prefix(counts, tcall.rank))
            n == At(counts, tcall.rank)
            g == tcall.key[arr.split + 1]
        IN  /\ prev <= g.start
            /\ g.stop <= prev + n
            /\ tcall.key[2 - arr.split] = AsPair(tcall.lkey)[2 - arr.split]


-----------------------------------------------------------------------------
(* Reading and writing tiles: __getitem__ and __setitem__ *)

MaxItemDim == 2
MaxWrites == 1

\* the value returned where the tile is not on the calling process
None == <<"None">>

\* line 513: the selection holds tiles of more than one process
SlicingAcrossSplitsNever(prs) == FALSE

SlicingAcrossSplits(prs) == Cardinality(prs) > 1

\* line 520: arr.comm.rank != the one process of the selection
OnAnotherProcessNever(rank, prs) == FALSE

OnAnotherProcess(rank, prs) == prs # {rank}

\* tiles[key] on process rank: the bounds of the view of the local tensor,
\* or None
getitem(t, a, key, rank) ==
    LET prs == TileProcs(t, key)
    IN  IF KeyOutOfRange(t, key) THEN [err |-> "IndexError", val |-> NoValue]
        ELSE IF SlicingAcrossSplits(prs) THEN [err |-> "ValueError", val |-> NoValue]
        ELSE IF prs = {} THEN [err |-> "", val |-> None]
        ELSE IF OnAnotherProcess(rank, prs) THEN [err |-> "", val |-> None]
        ELSE get_start_stop(t, a, key)

\* the indices of an axis of n entries that the Python slice st:sp selects
PySlice(st, sp, n) ==
    LET lo == IF st < 0 THEN Max2(st + n, 0) ELSE Min2(st, n)
        hi == IF sp < 0 THEN Max2(sp + n, 0) ELSE Min2(sp, n)
    IN  {i \in 0..(n - 1) : lo <= i /\ i < hi}

\* local_arr[st0:sp0, st1:sp1].__setitem__(slice(0, None), value)
SetView(local, b, value) ==
    [i \in 1..Len(local) |->
        [j \in 1..Len(local[i]) |->
            IF /\ (i - 1) \in PySlice(b[1], b[2], Len(local))
               /\ (j - 1) \in PySlice(b[3], b[4], Len(local[i]))
            THEN value ELSE local[i][j]]]

\* line 896: the if on the comparison of the rank with the selection's
\* processes; torch raises for a tensor that has not exactly one value
setitem(t, a, local, key, value, rank) ==
    LET prs == TileProcs(t, key)
        r == getitem(t, a, key, rank)
    IN  IF KeyOutOfRange(t, key) THEN [err |-> "IndexError", local |-> local]
        ELSE IF Cardinality(prs) # 1 THEN [err |-> "RuntimeError", local |-> local]
        ELSE IF prs # {rank} THEN [err |-> "", local |-> local]
        ELSE IF r.err # "" THEN [err |-> r.err, local |-> local]
        ELSE IF r.val = None THEN [err |-> "AttributeError", local |-> local]
        ELSE [err |-> "", local |-> SetView(local, r.val, value)]

\* the array holds zeros
ZerosLike(lshape_map) ==
    [r \in 1..Len(lshape_map) |->
        [i \in 1..lshape_map[r][1] |-> [j \in 1..lshape_map[r][2] |-> 0]]]

InitItems == InitGrid(MaxItemDim) /\ larray = ZerosLike(arr.lshape_map)

\* tiles[key] on one process
GetItem ==
    /\ tpc = "built" /\ tcall.op = "none"
    /\ \E key \in Keys(arr.split), rank \in 0..(arr.size - 1) :
          LET r == getitem(tiles, arr, key, rank)
          IN  tcall' = [NoCall EXCEPT !.op = "getitem", !.rank = rank, !.key = key,
                                      !.err = r.err, !.val = r.val]
    /\ UNCHANGED <<arr, tile_per_proc, tiles, tpc, svars, dvars>>

\* tiles[key] = 1 on one process
SetItem ==
    /\ tpc = "built" /\ tcall.op = "none"
    /\ nset < MaxWrites
    /\ \E key \in Keys(arr.split), rank \in 0..(arr.size - 1) :
          LET r == setitem(tiles, arr, larray[rank + 1], key, 1, rank)
          IN  /\ tcall' = [NoCall EXCEPT !.op = "setitem", !.rank = rank, !.key = key,
                                         !.err = r.err]
              /\ larray' = [larray EXCEPT ![rank + 1] = r.local]
    /\ nset' = nset + 1
    /\ UNCHANGED <<arr, tile_per_proc, tiles, tpc, matched, dvars>>

NextItems == Construct \/ GetStartStop \/ GetItem \/ SetItem \/ Discard

SpecItems == InitItems /\ [][NextItems]_vars

\* the selection of the last call holds tiles of more than one rank
AcrossRanks(key) ==
    ~KeyOutOfRange(tiles, key) /\ Cardinality(TileProcs(tiles, key)) > 1

\* the selection of the last call is owned by one rank, which is not the caller
OwnedByAnother(key, rank) ==
    /\ ~KeyOutOfRange(tiles, key)
    /\ Cardinality(TileProcs(tiles, key)) = 1
    /\ TileProcs(tiles, key) # {rank}

\* C13: get_start_stop and __getitem__ on a selection that holds tiles of
\* more than one rank raise the ValueError on whichever process they are
\* called, return nothing, and leave the grid, the array descriptor and the
\* local tensors as they were.
C13_AcrossRanksRaises ==
    [][(/\ tcall.op = "none"
        /\ tcall'.op \in {"get_start_stop", "getitem"}
        /\ AcrossRanks(tcall'.key))
          => /\ tcall'.err = "ValueError"
             /\ tcall'.val = NoValue
             /\ UNCHANGED <<tiles, arr, larray>>]_vars

C13_Witness ==
    /\ tcall.op = "getitem"
    /\ tcall.rank = arr.size - 1
    /\ arr.size > 1
    /\ AsPair(tcall.key)[arr.split + 1].kind = "slice"
    /\ AcrossRanks(tcall.key)
    /\ tcall.err = "ValueError"

\* C14: on a process that is not the one owner of the selection,
\* __getitem__ returns None without an error and __setitem__ leaves the
\* local tensors, the grid and the array descriptor as they were.
C14_OtherProcess ==
    [][(/\ tcall.op = "none"
        /\ tcall'.op \in {"getitem", "setitem"}
        /\ OwnedByAnother(tcall'.key, tcall'.rank))
          => /\ tcall'.op = "getitem" => tcall'.err = "" /\ tcall'.val = None
             /\ tcall'.op = "setitem" => UNCHANGED <<larray, tiles, arr>>]_vars

C14_Witness ==
    /\ tcall.op = "setitem"
    /\ OwnedByAnother(tcall.key, tcall.rank)
    /\ TileProcs(tiles, tcall.key) \subseteq 0..(arr.size - 1)
    /\ larray = ZerosLike(arr.lshape_map)


-----------------------------------------------------------------------------
(* match_tiles *)

MaxMatchDim == 4
MaxMatches == 2

\* lines 694-702: both arrays are split along the rows
MatchSameSplit(t, tm) ==
    [t EXCEPT !.row_per_proc_list = tm.row_per_proc_list,
              !.row_inds = tm.row_inds,
              !.tile_rows = tm.tile_rows,
              !.col_per_proc_list = tm.row_per_proc_list,
              !.col_inds = tm.row_inds,
              !.tile_columns = tm.tile_rows]

\* lines 788-803: the ranks written over columns of the cloned tile map;
\* -1 where no assignment reaches
FlippedRanks(ncols, size, ldp, tpp, ldpr) ==
    LET z == [j \in 1..ncols |-> -1]
        a == SetDiagRanks(z, 0, ldp, tpp)
        b == SetRange(a, tpp * ldp, tpp * ldp + ldpr, ldp)
    IN  SetRestRanks(b, 0, tpp * ldp + ldpr, size, ldp, tpp)

\* lines 774-807: the splits differ and the shapes are equal
MatchFlipped(t, a, tm) ==
    LET ranks == FlippedRanks(tm.tile_columns, a.size, tm.last_diag_pr,
                              At(tm.row_per_proc_list, 0),
                              At(tm.col_per_proc_list, tm.last_diag_pr))
    IN  [t EXCEPT !.col_per_proc_list = tm.row_per_proc_list,
                  !.row_per_proc_list = tm.col_per_proc_list,
                  !.row_inds = tm.col_inds,
                  !.col_inds = tm.row_inds,
                  !.last_diag_pr = tm.last_diag_pr,
                  !.tile_map = [i \in 1..Len(tm.tile_map) |->
                                  [j \in 1..Len(tm.tile_map[i]) |->
                                      IF ranks[j] = -1 THEN tm.tile_map[i][j]
                                      ELSE [tm.tile_map[i][j] EXCEPT ![3] = ranks[j]]]],
                  !.tile_columns = tm.tile_rows,
                  !.tile_rows = tm.tile_columns]

\* lines 811-820: the boundaries taken from the target
MatchedInds(a, tm) ==
    IF a.gshape[1] <= a.gshape[2] THEN tm.row_inds ELSE tm.col_inds

\* line 822
rows_per_of(a, tm) ==
    LET below(x) == x < a.gshape[1]
    IN  SelectSeq(MatchedInds(a, tm), below)

\* lines 826-831: the rows every process is to hold
target_0_of(a, tm, am) ==
    LET ldp == tm.last_diag_pr
        head == [r \in 1..ldp |-> am.lshape_map[r][2]]
    IN  head \o <<a.gshape[1] - SumSeq(head)>> \o [r \in 1..(a.size - 1 - ldp) |-> 0]

\* lines 833-834
targe_map_of(a, tm, am) ==
    LET target_0 == target_0_of(a, tm, am)
    IN  [r \in 1..a.size |-> <<target_0[r], a.lshape_map[r][2]>>]

\* lines 835-845: the boundaries that fall into the rows of every process
MatchedRowsPerProc(a, tm, am) ==
    LET c == CumSum(target_0_of(a, tm, am))
        rows_per == rows_per_of(a, tm) \o <<a.gshape[1]>>
    IN  [i \in 1..a.size |->
            Cardinality({k \in 1..Len(rows_per) :
                            /\ (IF i = 1 THEN 0 ELSE c[i - 1]) < rows_per[k]
                            /\ rows_per[k] <= c[i]})]

\* lines 854-856
RECURSIVE SetScaledRanks(_, _, _)
SetScaledRanks(own, i, rpp) ==
    IF i >= Len(rpp) THEN own
    ELSE SetScaledRanks(SetRange(own, i * At(rpp, i), (i + 1) * At(rpp, i), i), i + 1, rpp)

\* lines 854-860: the rank of every tile row
MatchedRanks(nrows, rpp) ==
    LET own == SetScaledRanks([i \in 1..nrows |-> 0], 0, rpp)
        i == Len(rpp) - 1
    IN  SetRange(own, SumSeq(Prefix(rpp, i)), nrows, i)

\* redistribute_ rejects a target map that asks a process for a negative
\* number of rows
RedistributeFails(target_map) ==
    \E r \in 1..Len(target_map) : target_map[r][1] < 0

\* lines 809-845: the fields written before the array is redistributed
MatchRowsBefore(t, a, tm, am) ==
    [t EXCEPT !.col_inds = MatchedInds(a, tm),
              !.row_inds = MatchedInds(a, tm),
              !.tile_rows = Len(rows_per_of(a, tm)),
              !.tile_columns = Len(rows_per_of(a, tm)),
              !.row_per_proc_list = MatchedRowsPerProc(a, tm, am)]

\* lines 849-862: the fields written after the array is redistributed
MatchRowsAfter(t, a) ==
    LET ranks == MatchedRanks(t.tile_rows, t.row_per_proc_list)
    IN  [t EXCEPT !.tile_map = [i \in 1..t.tile_rows |-> [j \in 1..t.tile_columns |->
                                   <<t.row_inds[i], t.col_inds[j], ranks[i]>>]],
                  !.col_per_proc_list = [r \in 1..a.size |-> t.tile_columns],
                  !.last_diag_pr = a.size - 1]

\* lines 809-862: this array is split along the rows, the target's along
\* the columns
MatchRows(t, a, tm, am) ==
    IF RedistributeFails(targe_map_of(a, tm, am))
    THEN [tiles |-> MatchRowsBefore(t, a, tm, am), err |-> "ValueError",
          target_map |-> NoValue]
    ELSE [tiles |-> MatchRowsAfter(MatchRowsBefore(t, a, tm, am), a), err |-> "",
          target_map |-> targe_map_of(a, tm, am)]

\* self.match_tiles(tiles_to_match): the grid afterwards, the error raised and
\* the map the array was redistributed to, if it was
match_tiles(t, a, tm, am) ==
    LET t1 == IF a.split = 0 /\ am.split = 0 THEN MatchSameSplit(t, tm) ELSE t
        t2 == IF a.split # am.split /\ a.gshape = am.gshape
              THEN MatchFlipped(t1, a, tm) ELSE t1
    IN  IF a.split = 0 /\ am.split = 1 THEN MatchRows(t2, a, tm, am)
        ELSE [tiles |-> t2, err |-> "", target_map |-> NoValue]

InitMatch == InitGrid(MaxMatchDim) /\ larray = ZerosLike(arr.lshape_map)

\* the shapes of the arrays a grid to match is built over: the shape of
\* this array, the square one with its rows, the transposed one, and one
\* with another number of rows
TargetShapes ==
    {arr.gshape, <<arr.gshape[1], arr.gshape[1]>>, <<arr.gshape[2], arr.gshape[1]>>,
     <<(arr.gshape[1] % MaxMatchDim) + 1, arr.gshape[2]>>}

\* the arrays a grid to match is built over, on the processes of this array
TargetArrays ==
    {[gshape |-> g, split |-> split, size |-> arr.size,
      lshape_map |-> BalancedMap(g, split, arr.size)] :
        g \in TargetShapes, split \in {0, 1}}

\* tiles.match_tiles(SquareDiagTiles(am, tpp))
MatchTiles ==
    /\ tpc = "built" /\ tcall.op = "none"
    /\ Len(matched) < MaxMatches
    /\ \E am \in TargetArrays, tpp \in 1..MaxTilesPerProc, div0 \in {"raise", "inf"} :
          LET tm == SquareDiagTilesInit(am, tpp, div0)
              r == match_tiles(tiles, arr, tm, am)
          IN  /\ tm.error = ""
              /\ tiles' = r.tiles
              /\ tcall' = [NoCall EXCEPT !.op = "match_tiles", !.err = r.err]
              /\ larray' = IF r.target_map = NoValue THEN larray
                           ELSE ZerosLike(r.target_map)
              /\ matched' = Append(matched, [arr |-> am, tpp |-> tpp, tiles |-> tm])
    /\ UNCHANGED <<arr, tile_per_proc, tpc, nset, dvars>>

NextMatch == Construct \/ MatchTiles \/ Discard

SpecMatch == InitMatch /\ [][NextMatch]_vars


\* the grid the last match_tiles call was given, with its array
LastTarget == matched[Len(matched)]

\* match_tiles has just returned
Matched == tcall.op = "match_tiles" /\ tcall.err = ""

\* C20: after match_tiles against a grid whose array is split along the
\* same axis, the row boundaries, the column boundaries and the per-process
\* row and column tile counts of this grid are those of the target.
C20_SameSplitCopies ==
    (Matched /\ LastTarget.arr.split = arr.split) =>
        /\ tiles.row_inds = LastTarget.tiles.row_inds
        /\ tiles.col_inds = LastTarget.tiles.col_inds
        /\ tiles.row_per_proc_list = LastTarget.tiles.row_per_proc_list
        /\ tiles.col_per_proc_list = LastTarget.tiles.col_per_proc_list


\* line 663: the arrays of the two grids have the same number of rows
Compatible(a, am) == a.gshape[1] = am.gshape[1]

\* C15: match_tiles against a grid whose array has an incompatible global
\* shape raises an error and leaves the grid (boundaries, per-process
\* counts, tile map, last diagonal process) and the local tensors of the
\* array as they were.
C15_IncompatibleRaises ==
    [][(/\ tcall.op = "none"
        /\ tcall'.op = "match_tiles"
        /\ ~Compatible(arr, matched'[Len(matched')].arr))
          => /\ tcall'.err # ""
             /\ UNCHANGED <<tiles, larray>>]_vars

\* the grid was matched against a column-split grid over an array of the
\* same shape and then against the grid it was constructed as
RoundTrip ==
    /\ arr.split = 0
    /\ Len(matched) = 2
    /\ Matched
    /\ matched[1].arr.gshape = arr.gshape /\ matched[1].arr.split = 1
    /\ matched[2].arr = arr /\ matched[2].tpp = tile_per_proc

\* C12: a row-split grid that is matched against a column-split grid over an
\* array of the same global shape, and then against the row-split grid it
\* was constructed as, has its original row boundaries and column
\* boundaries again.
C12_RoundTrip ==
    RoundTrip =>
        /\ tiles.row_inds = matched[2].tiles.row_inds
        /\ tiles.col_inds = matched[2].tiles.col_inds


\* C23: after the constructor and after every match_tiles call that returned,
\* the fields of the grid agree with each other: the tile map has tile_rows
\* rows of tile_columns cells, there are tile_rows row boundaries and
\* tile_columns column boundaries, every cell stores the row boundary of its
\* row and the column boundary of its column, the per-process counts along
\* the split axis sum to the number of tiles along that axis, and every rank
\* owns exactly the block of tiles that its count describes.
C23_FieldsAgree ==
    (tpc = "built" /\ tcall.err = "") =>
        LET counts == SplitCounts(tiles, arr)
            n == IF arr.split = 0 THEN tiles.tile_rows ELSE tiles.tile_columns
            owner(k) == IF arr.split = 0 THEN tiles.tile_map[k + 1][1][3]
                        ELSE tiles.tile_map[1][k + 1][3]
        IN  /\ Len(tiles.tile_map) = tiles.tile_rows
            /\ \A i \in 1..Len(tiles.tile_map) : Len(tiles.tile_map[i]) = tiles.tile_columns
            /\ Len(tiles.row_inds) = tiles.tile_rows
            /\ Len(tiles.col_inds) = tiles.tile_columns
            /\ \A i \in 1..tiles.tile_rows : \A j \in 1..tiles.tile_columns :
                  /\ tiles.tile_map[i][j][1] = tiles.row_inds[i]
                  /\ tiles.tile_map[i][j][2] = tiles.col_inds[j]
            /\ SumSeq(counts) = n
            /\ \A k \in 0..(n - 1) :
                  /\ SumSeq(Prefix(counts, owner(k))) <= k
                  /\ k < SumSeq(Prefix(counts, owner(k) + 1))


-----------------------------------------------------------------------------
(* More claims about the gradient synchronizer *)

\* the handles that process p has waited on in the running forward pass
WaitedOn(p) == {waitlog[p][j].handle : j \in 1..Len(waitlog[p])}

\* the handles in the queues of process p
Queued(p) ==
    UNION {{wait_handles[p][layer][j].handle : j \in 1..Len(wait_handles[p][layer])} :
           layer \in DOMAIN wait_handles[p]}

\* line 124 runs on process p in this step
QueuesCleared(p) == pc[p] = "forward" /\ pc'[p] = "fwd_done"

-----------------------------------------------------------------------------
(* DataParallel.__init__ *)

\* list(module.parameters()): the parameters by their position
ModuleParameters(m) == [i \in 1..Len(m.named_parameters) |-> i]

\* the optimizer arguments tried with module m: none, an optimizer over the
\* parameters of the module, an optimizer over only the first two of them
Optimizers(m) ==
    {[given |-> FALSE, params |-> <<>>],
     [given |-> TRUE, params |-> ModuleParameters(m)],
     [given |-> TRUE, params |-> SubSeq(ModuleParameters(m), 1, 2)]}

\* layer_name_prev = None (line 82)
NoLayer == "None"

\* lines 56-67: the fields of a new object
NewObject ==
    [pos |-> "new", idx |-> 0, start_idx |-> 0, layer_name_prev |-> NoLayer,
     param_indices |-> <<>>, param_slices |-> EmptyDict, params_ref |-> <<>>,
     param_groups |-> <<>>, hooks |-> <<>>]

\* line 167: def nonblocking_hook(self, layer_name) takes one argument
\* besides self
nonblocking_hook_arity == 1

\* line 95: self.nonblocking_hook(layer_name, name)
Line95Args(layer_name, name) == <<layer_name, name>>

\* a call of nonblocking_hook with these arguments raises TypeError unless
\* their number is the number of parameters of the method
CallRaises(args) == Len(args) # nonblocking_hook_arity

\* DataParallel(module, comm, optimizer) is about to be called on every
\* process; nothing of the training loop exists yet
InitNew ==
    /\ comm_size \in 1..MaxRanks
    /\ module \in Modules
    /\ optimizer \in Optimizers(module)
    /\ mode = IF optimizer.given THEN "nonblocking" ELSE "blocking"
    /\ ctor = [p \in 1..comm_size |-> [NewObject EXCEPT !.param_groups = optimizer.params]]
    /\ training = TRUE
    /\ lgrad = <<>>
    /\ border = <<>>
    /\ pc = [p \in 1..comm_size |-> "new"]
    /\ nback = <<>>
    /\ passStart = <<>>
    /\ sendbuf = <<>>
    /\ grad = <<>>
    /\ wait_handles = [p \in 1..comm_size |-> EmptyDict]
    /\ fwd_hook_handles = [p \in 1..comm_size |-> <<>>]
    /\ registered = <<>>
    /\ flayer = <<>>
    /\ waitlog = <<>>
    /\ TilesIdle

unbuilt == <<mode, comm_size, training, module, lgrad, border, pc, nback,
             passStart, sendbuf, grad, wait_handles, fwd_hook_handles, registered,
             flayer, waitlog, optimizer, tvars>>

\* __init__, lines 56-81: the fields are set and the optimizer is checked
\* against the module
InitCheckOn(p) ==
    /\ ctor[p].pos = "new"
    /\ ctor' = [ctor EXCEPT ![p] =
          IF optimizer.given /\ ModuleParameters(module) # ctor[p].param_groups
          THEN [@ EXCEPT !.pos = "ValueError"]
          ELSE IF optimizer.given
          THEN [@ EXCEPT !.pos = "loop", !.params_ref = ctor[p].param_groups,
                         !.param_groups = <<>>]
          ELSE [@ EXCEPT !.pos = "loop"]]
    /\ UNCHANGED unbuilt

\* lines 84-91 of one iteration: the index of the parameter is recorded and
\* the slice of the previous layer is closed when the layer name changes
Indexed(o, idx, name) ==
    LET layer_name == LayerName(name)
        prev == IF o.layer_name_prev = NoLayer THEN layer_name ELSE o.layer_name_prev
    IN  IF prev # layer_name
        THEN [o EXCEPT !.param_indices = Append(@, name),
                       !.param_slices = (prev :> <<o.start_idx, idx>>) @@ @,
                       !.layer_name_prev = layer_name,
                       !.start_idx = idx]
        ELSE [o EXCEPT !.param_indices = Append(@, name),
                       !.layer_name_prev = prev]

\* lines 94-97 of one iteration: the gradient hook is registered on the
\* parameter, unless making the non-blocking hook raises
Hooked(o, name) ==
    IF optimizer.given
    THEN IF CallRaises(Line95Args(LayerName(name), name))
         THEN [o EXCEPT !.pos = "TypeError"]
         ELSE [o EXCEPT !.hooks = Append(@, [fn |-> "_hook", layer_name |-> LayerName(name)]),
                        !.idx = @ + 1]
    ELSE [o EXCEPT !.hooks = Append(@, [fn |-> "blocking_hook", layer_name |-> ""]),
                   !.idx = @ + 1]

\* __init__, lines 83-97: one iteration of the loop over named_parameters()
InitParamOn(p) ==
    /\ ctor[p].pos = "loop"
    /\ ctor[p].idx < Len(module.named_parameters)
    /\ LET name == module.named_parameters[ctor[p].idx + 1]
       IN  ctor' = [ctor EXCEPT ![p] = Hooked(Indexed(@, ctor[p].idx, name), name)]
    /\ UNCHANGED unbuilt

\* __init__, line 98: the slice of the last layer is closed and the
\* constructor returns
InitReturnOn(p) ==
    /\ ctor[p].pos = "loop"
    /\ ctor[p].idx = Len(module.named_parameters)
    /\ ctor' = [ctor EXCEPT ![p] =
          [@ EXCEPT !.pos = "done",
                    !.param_slices =
                        (ctor[p].layer_name_prev :>
                            <<ctor[p].start_idx, Len(ctor[p].param_indices)>>) @@ @]]
    /\ UNCHANGED unbuilt

InitCheck == \E p \in Procs : InitCheckOn(p)
InitParam == \E p \in Procs : InitParamOn(p)
InitReturn == \E p \in Procs : InitReturnOn(p)

NextNew ==
    \/ InitCheck
    \/ InitParam
    \/ InitReturn

SpecNew == InitNew /\ [][NextNew]_vars

\* the constructor of process p raised
InitRaised(p) == ctor[p].pos \in {"ValueError", "TypeError"}

\* the gradient hook the claim names for parameter i
HookOf(i) ==
    IF optimizer.given
    THEN [fn |-> "_hook", layer_name |-> LayerName(module.named_parameters[i])]
    ELSE [fn |-> "blocking_hook", layer_name |-> ""]

\* C21: when no optimizer is given, or an optimizer whose parameter list is
\* the module's, the constructor does not raise on any process, and once it
\* has returned every parameter of the module carries its gradient hook:
\* the blocking hook without an optimizer, with one the non-blocking hook
\* bound to the first path segment of the parameter's name.
C21_ConstructorRegisters ==
    (~optimizer.given \/ optimizer.params = ModuleParameters(module)) =>
        \A p \in Procs :
            /\ ~InitRaised(p)
            /\ ctor[p].pos = "done" =>
                  ctor[p].hooks = [i \in 1..Len(module.named_parameters) |-> HookOf(i)]


-----------------------------------------------------------------------------
(* Blocking mode: the training loop of processes that keep running *)

InitBlocking == InitDP /\ mode = "blocking"

NextBlocking ==
    \/ BackwardStart
    \/ BlockingHookEnter
    \/ BlockingHookReturn
    \/ ForwardBegin
    \/ ForwardEnd

\* the next step of the training loop of process p
TrainingStepOn(p) ==
    \/ ForwardBeginOn(p)
    \/ ForwardEndOn(p)
    \/ BackwardStartOn(p)
    \/ BlockingHookEnterOn(p)
    \/ BlockingHookReturnOn(p)

\* the guards of the five steps: process p can take its next step
CanStep(p) ==
    \/ pc[p] = "idle"
    \/ pc[p] = "forward" /\ flayer[p] = Len(module.named_modules) + 1
    \/ pc[p] = "fwd_done" /\ nback[p] < MaxBackward
    \/ pc[p] = "backward" /\ mode = "blocking" /\ NextParams(p) # {}
    \/ pc[p] = "allreduce" /\ mode = "blocking" /\ AllreduceReturns(Len(sendbuf[p]))

\* every step of process p moves pc[p], and no step of another process does
MovesOn(p) ==
    /\ CanStep(p)
    /\ \E s \in {"idle", "forward", "fwd_done", "backward", "allreduce"} :
          /\ s # pc[p]
          /\ pc' = [pc EXCEPT ![p] = s]

\* the guards are those of the actions: MovesOn(p) is enabled exactly when
\* a step of process p is
GuardsAreExact == \A p \in Procs : CanStep(p) <=> ENABLED TrainingStepOn(p)

\* no process fails and every process runs its training loop: a process
\* that can take its next step (start its forward or backward pass, have
\* autograd fire the next hook, return from a completed Allreduce)
\* eventually takes it.  Among the steps of NextBlocking the steps of
\* process p are those that move pc[p]
FairBlocking ==
    \A p \in 1..MaxRanks : WF_pc(p \in Procs /\ MovesOn(p))

SpecBlockingFair == InitBlocking /\ [][NextBlocking]_vars /\ FairBlocking

\* C24: in blocking mode, with every process running its backward passes
\* and none failing, a process that is in a backward pass (between two
\* hooks or inside the Allreduce of a hook) eventually has all its hooks
\* returned and its backward pass finished: the reductions never deadlock.
C24_BackwardTerminates ==
    \A p \in 1..MaxRanks :
        (p \in Procs /\ pc[p] \in {"backward", "allreduce"})
            ~> (p \in Procs /\ pc[p] = "idle" /\ Fired(p) = Len(module.named_parameters))

\* two processes have both finished a backward pass whose hooks waited
\* for each other
C24_Witness ==
    /\ mode = "blocking"
    /\ comm_size > 1
    /\ \A p \in Procs :
          /\ pc[p] = "idle"
          /\ nback[p] >= 1
          /\ Fired(p) = Len(module.named_parameters)

=============================================================================
